---------------------------- MODULE Spec2Model ----------------------------
(***************************************************************************)
(* Interleaved randomized benchmarking (IRB) of client-superstaq.          *)
(*                                                                         *)
(* The module models the IRB experiment of supermarq/qcvv/irb.py (and the  *)
(* older cirq_superstaq/qcvv/irb.py): random single-qubit Clifford         *)
(* generation, circuit inversion, circuit building, aggregation of the     *)
(* sampled probabilities and the decay fit.                                *)
(*                                                                         *)
(* A single-qubit Clifford gate is modelled, up to global phase, by its    *)
(* action on the Pauli operators (what cirq's SingleQubitCliffordGate      *)
(* stores): X |-> xto, Z |-> zto, each a pair <<axis, sign>> with axis     *)
(* 1 = X, 2 = Y, 3 = Z and sign 1 or -1.                                   *)
(***************************************************************************)
EXTENDS Integers, Sequences, FiniteSets, TLC

VARIABLES
    interleaved_gate,  \* self.interleaved_gate: a gate record or NoneGate
    base_circuit,      \* the Clifford gates drawn so far for a base circuit
    last_draw,         \* the indices random.choice took in set_A and set_B
    rb_circuit,        \* the inverted plain circuit
    irb_circuit,       \* the inverted interleaved circuit
    args,              \* the arguments of the last _build_circuits call
    random_source,     \* what the random source held when the build began, and after it
    samples,           \* the samples _build_circuits returned
    package,           \* which IRB class: "supermarq" or "cirq_superstaq"
    raw_data,          \* self.raw_data: the table of rows
    results,           \* self._results
    regressed,         \* the data handed to linregress by the last analysis
    num_qubits,        \* self.num_qubits, set by the base class (0: not set)
    init_args,         \* the arguments __init__ was called with
    calls,             \* how many times the analysis has been called
    before_call,       \* results, raw_data and pc when the last analysis began
    pc                 \* where the experiment object is in its life cycle

vars ==
    <<interleaved_gate, base_circuit, last_draw, rb_circuit, irb_circuit,
      args, random_source, samples, package, raw_data, results, regressed, num_qubits,
      init_args, calls, before_call, pc>>

\* the variables of the circuit builder, and those of the gate-level steps
build_vars == <<args, random_source, samples>>
gate_vars == <<base_circuit, last_draw, rb_circuit, irb_circuit>>
analysis_vars == <<package, raw_data, results, regressed, calls, before_call>>
ctor_vars == <<num_qubits, init_args>>

---------------------------------------------------------------------------
(* Bounds *)

\* longest base circuit drawn gate by gate in SpecClifford
MaxLen == 2
\* largest num_circuits, longest cycle_depths, largest depth of a call
MaxCircuits == 2
MaxDepths == 2
MaxDepth == 2
\* most random Clifford gates one _build_circuits call may draw
MaxGates == 6
MaxRows == 4
MaxFitRows == 6
MaxQubits == 2
MaxCalls == 2

---------------------------------------------------------------------------
(* cirq.ops.SingleQubitCliffordGate, by its action on the Paulis *)

Axes == {1, 2, 3}
Signs == {1, -1}

Gate(xa, xs, za, zs) == [xto |-> <<xa, xs>>, zto |-> <<za, zs>>]

\* the 24 elements of the single-qubit Clifford group modulo phase
CliffordGroup ==
    {Gate(xa, xs, za, zs) : xa \in Axes, xs \in Signs, za \in Axes, zs \in Signs}
        \ {Gate(a, xs, a, zs) : a \in Axes, xs \in Signs, zs \in Signs}

Id == Gate(1, 1, 3, 1)
H == Gate(3, 1, 1, 1)
S == Gate(2, 1, 3, 1)
X == Gate(1, 1, 3, -1)
Y == Gate(1, -1, 3, -1)
Z == Gate(1, -1, 3, 1)

\* the value of an absent optional gate (Python's None)
NoneGate == [xto |-> <<0, 0>>, zto |-> <<0, 0>>]

\* Levi-Civita sign of (i, j, 6 - i - j) for i # j
Eps(i, j) == IF (j - i) % 3 = 1 THEN 1 ELSE -1

\* image of Y = i X Z under g: i g(X) g(Z)
Yto(g) ==
    <<6 - g.xto[1] - g.zto[1], -(g.xto[2] * g.zto[2] * Eps(g.xto[1], g.zto[1]))>>

\* image of the signed Pauli p = <<axis, sign>> under conjugation by g
Image(g, p) ==
    LET b == CASE p[1] = 1 -> g.xto
               [] p[1] = 2 -> Yto(g)
               [] p[1] = 3 -> g.zto
    IN <<b[1], b[2] * p[2]>>

\* merged_with with the operands swapped: b followed by a
merged_with_swapped(a, b) == [xto |-> Image(a, b.xto), zto |-> Image(a, b.zto)]

\* a.merged_with(b): the one gate equivalent to a followed by b
merged_with(a, b) == [xto |-> Image(b, a.xto), zto |-> Image(b, a.zto)]

\* every gate taken for its own inverse
inverse_gate_self(g) == g

\* cirq.inverse of one gate: g(P_i) = s P_t gives g^-1(P_t) = s P_i
inverse_gate(g) ==
    LET pre(t) == CHOOSE i \in Axes : Image(g, <<i, 1>>)[1] = t
        back(t) == <<pre(t), Image(g, <<pre(t), 1>>)[2]>>
    IN [xto |-> back(1), zto |-> back(3)]

\* both operations tabulated over the group
MergeTable ==
    [a \in CliffordGroup |-> [b \in CliffordGroup |-> merged_with(a, b)]]
InverseTable == [g \in CliffordGroup |-> inverse_gate(g)]

\* the inverses of a list of gates, the order kept
inverse_seq_unreversed(gates) ==
    [i \in 1..Len(gates) |-> InverseTable[gates[i]]]

\* cirq.inverse of a list of gates: the inverses in reverse order
inverse_seq(gates) ==
    [i \in 1..Len(gates) |-> InverseTable[gates[Len(gates) + 1 - i]]]

---------------------------------------------------------------------------
(* IRB._reduce_clifford_seq *)

\* gate_seq[0] raises IndexError on an empty list
\* raising on a single gate as well
reduce_raises_on_single(gate_seq) == Len(gate_seq) <= 1

reduce_raises(gate_seq) == Len(gate_seq) = 0

RECURSIVE fold_merge(_, _, _)
fold_merge(cur, gate_seq, i) ==
    IF i > Len(gate_seq) THEN cur
    ELSE fold_merge(MergeTable[cur][gate_seq[i]], gate_seq, i + 1)

\* the fold taken from the last gate to the first
reduce_clifford_seq_reversed(gate_seq) ==
    LET rev == [i \in 1..Len(gate_seq) |-> gate_seq[Len(gate_seq) + 1 - i]]
    IN fold_merge(rev[1], rev, 2)

\* cur = gate_seq[0]; for gate in gate_seq[1:]: cur = cur.merged_with(gate)
reduce_clifford_seq(gate_seq) == fold_merge(gate_seq[1], gate_seq, 2)

---------------------------------------------------------------------------
(* IRB._random_single_qubit_clifford *)

\* set_A with H S listed twice and S H left out
set_A_repeated ==
    << Id, S, H,
       reduce_clifford_seq(<<H, S>>),
       reduce_clifford_seq(<<H, S>>),
       reduce_clifford_seq(<<H, S, H>>) >>

set_A ==
    << Id, S, H,
       reduce_clifford_seq(<<H, S>>),
       reduce_clifford_seq(<<S, H>>),
       reduce_clifford_seq(<<H, S, H>>) >>

set_B == <<Id, X, Y, Z>>

\* the gate returned when random.choice picks set_A[a] and set_B[b]
random_single_qubit_clifford(a, b) == reduce_clifford_seq(<<set_A[a], set_B[b]>>)

Draws == (1..Len(set_A)) \X (1..Len(set_B))

\* the gate of every pair of choices
ProductTable == [d \in Draws |-> random_single_qubit_clifford(d[1], d[2])]

---------------------------------------------------------------------------
(* IRB._invert_clifford_circuit *)

invert_raises(circuit) == reduce_raises(inverse_seq(circuit))

\* supermarq: circuit + inv_element(*self.qubits)
invert_clifford_circuit(circuit) ==
    circuit \o <<reduce_clifford_seq(inverse_seq(circuit))>>

\* cirq_superstaq: clifford_gates.append(inv_element), then a new circuit of
\* the gates
invert_clifford_circuit_cirq(circuit) ==
    LET clifford_gates == [i \in 1..Len(circuit) |-> circuit[i]]
    IN Append(clifford_gates, reduce_clifford_seq(inverse_seq(clifford_gates)))

---------------------------------------------------------------------------
(* BenchmarkingExperiment._interleave_op(circuit, operation,               *)
(* include_final=True): the operation inserted after every element         *)

interleave_op(circuit, operation) ==
    [i \in 1..(2 * Len(circuit)) |->
        IF i % 2 = 1 THEN circuit[(i + 1) \div 2] ELSE operation]

---------------------------------------------------------------------------
(* float64 arithmetic, modelled in fixed point: the integer v stands for   *)
(* v / One.  A float is a record [k, v]: a number, NaN or -inf.            *)

One == 1000000
\* np.log(2) in units of 1 / One
Ln2 == 693147

Abs(a) == IF a < 0 THEN -a ELSE a
Sgn(a) == IF a < 0 THEN -1 ELSE 1

\* a * b / One for a, b >= 0, by halves so that no product overflows
MulPos(a, b) ==
    LET a1 == a \div 1000
        a0 == a % 1000
        b1 == b \div 1000
        b0 == b % 1000
    IN a1 * b1 + ((a1 * b0 + a0 * b1 + ((a0 * b0) \div 1000)) \div 1000)

fmul(a, b) == Sgn(a) * Sgn(b) * MulPos(Abs(a), Abs(b))

\* the next n decimal digits of r / b, for 0 <= r < b
RECURSIVE DivDigits(_, _, _, _)
DivDigits(r, b, n, acc) ==
    IF n = 0 THEN acc
    ELSE DivDigits((r * 10) % b, b, n - 1, acc * 10 + ((r * 10) \div b))

\* a * One / b for a >= 0, b > 0
DivPos(a, b) == (a \div b) * One + DivDigits(a % b, b, 6, 0)

fdiv(a, b) == Sgn(a) * Sgn(b) * DivPos(Abs(a), Abs(b))

\* 1/k + z2 * (1/(k+2) + z2 * (...)): the series of atanh(z) / z
RECURSIVE AtanhSeries(_, _, _)
AtanhSeries(z2, k, acc) ==
    IF k < 1 THEN acc
    ELSE AtanhSeries(z2, k - 2, (One \div k) + fmul(z2, acc))

\* the natural logarithm of s > 0: halve or double into [1/2, 2], then
\* ln(s) = 2 atanh((s - 1) / (s + 1))
RECURSIVE ln_fixed(_)
ln_fixed(s) ==
    IF 2 * s < One THEN ln_fixed(2 * s) - Ln2
    ELSE IF s > 2 * One THEN ln_fixed(s \div 2) + Ln2
    ELSE LET z == fdiv(s - One, s + One)
         IN 2 * fmul(z, AtanhSeries(fmul(z, z), 17, 0))

\* 1 + y/1 * (1 + y/2 * (1 + ...)): the series of exp(y)
RECURSIVE ExpSeries(_, _, _)
ExpSeries(y, k, acc) ==
    IF k = 0 THEN acc
    ELSE ExpSeries(y, k - 1, One + Sgn(y) * (MulPos(Abs(y), acc) \div k))

\* exp(y): halve the argument until |y| <= 1/2, square back
RECURSIVE exp_fixed(_)
exp_fixed(y) ==
    IF 2 * Abs(y) > One
    THEN LET h == exp_fixed(Sgn(y) * (Abs(y) \div 2)) IN fmul(h, h)
    ELSE ExpSeries(y, 12, One)

\* integer square root of a >= 0 (Newton's iteration from above)
RECURSIVE IsqrtFrom(_, _)
IsqrtFrom(a, x) ==
    LET y == (x + (a \div x)) \div 2
    IN IF y >= x THEN x ELSE IsqrtFrom(a, y)
Isqrt(a) == IF a = 0 THEN 0 ELSE IsqrtFrom(a, a)

\* sqrt of a fixed-point a >= 0: sqrt(a / One) * One = isqrt(a) * 1000
sqrt_fixed(a) == Isqrt(a) * 1000 + ((a - Isqrt(a) * Isqrt(a)) * 500) \div (IF Isqrt(a) = 0 THEN 1 ELSE Isqrt(a))

Num(v) == [k |-> "num", v |-> v]
NaN == [k |-> "nan", v |-> 0]
NegInf == [k |-> "-inf", v |-> 0]
IsNum(f) == f.k = "num"

\* np.log: -inf at 0 and NaN below (each with a RuntimeWarning, no error)
np_log(f) ==
    IF ~IsNum(f) THEN NaN
    ELSE IF f.v > 0 THEN Num(ln_fixed(f.v))
    ELSE IF f.v = 0 THEN NegInf
    ELSE NaN

\* np.exp of a number or NaN
np_exp(f) == IF IsNum(f) THEN Num(exp_fixed(f.v)) ELSE NaN

\* arithmetic on floats: NaN propagates
f_sub(a, b) == IF IsNum(a) /\ IsNum(b) THEN Num(a.v - b.v) ELSE NaN
f_mul(a, b) == IF IsNum(a) /\ IsNum(b) THEN Num(fmul(a.v, b.v)) ELSE NaN
f_div(a, b) ==
    IF IsNum(a) /\ IsNum(b) /\ b.v # 0 THEN Num(fdiv(a.v, b.v)) ELSE NaN
f_add(a, b) == IF IsNum(a) /\ IsNum(b) THEN Num(a.v + b.v) ELSE NaN
f_sqrt(a) == IF IsNum(a) /\ a.v >= 0 THEN Num(sqrt_fixed(a.v)) ELSE NaN

---------------------------------------------------------------------------
(* IRB._process_probabilities: one record per sample *)

\* a column a row has no value for
Missing == [k |-> "missing", v |-> 0]

process_probabilities(smpls) ==
    [i \in 1..Len(smpls) |->
        [clifford_depth |-> smpls[i].data.num_cycles,
         circuit_depth |-> smpls[i].data.circuit_depth,
         experiment |-> smpls[i].data.experiment,
         p0 |-> Num(smpls[i].probabilities.p0),
         p1 |-> Num(smpls[i].probabilities.p1),
         survival_prob |-> Missing,
         log_survival_prob |-> Missing]]

---------------------------------------------------------------------------
(* scipy.stats.linregress(x, y), x integers and y floats *)

RECURSIVE SumOver(_, _, _)
\* the sum of f[i] for i in lo..Len(f)
SumOver(f, lo, acc) ==
    IF lo > Len(f) THEN acc ELSE SumOver(f, lo + 1, acc + f[lo])

\* ValueError: "Inputs must not be empty." and "Cannot calculate a linear
\* regression if all x values are identical"
linregress_raises(x) ==
    \/ Len(x) = 0
    \/ Len(x) > 1 /\ \A i \in 1..Len(x) : x[i] = x[1]

\* slope and its standard error; NaN when one point only or when some y is
\* not finite.  With n points, A = n Sxx - Sx^2, B = n Sxy - Sx Sy and
\* C = n Syy - Sy^2: slope = B / A, stderr = sqrt(C - B^2 / A) / sqrt(A (n - 2)),
\* and stderr = 0.0 for n = 2
linregress(x, y) ==
    LET n == Len(x)
    IN IF n = 1 \/ \E i \in 1..n : ~IsNum(y[i])
       THEN [slope |-> NaN, stderr |-> NaN]
       ELSE LET yv == [i \in 1..n |-> y[i].v]
                Sx == SumOver(x, 1, 0)
                Sy == SumOver(yv, 1, 0)
                Sxx == SumOver([i \in 1..n |-> x[i] * x[i]], 1, 0)
                Sxy == SumOver([i \in 1..n |-> x[i] * yv[i]], 1, 0)
                Syy == SumOver([i \in 1..n |-> fmul(yv[i], yv[i])], 1, 0)
                A == n * Sxx - Sx * Sx
                B == n * Sxy - Sx * Sy
                C == n * Syy - fmul(Sy, Sy)
                \* B^2 / A as B * (B div A) + B * ((B mod A) / A), products kept small
                q == Abs(B) \div A
                t == ((Abs(B) % A) * One) \div A
                resid == C - (fmul(Abs(B), q) + (fmul(Abs(B), t) \div One))
                \* sqrt(A (n - 2)) = 10 sqrt(A (n - 2) / 100)
                root == sqrt_fixed(A * (n - 2) * 10000) * 10
            IN [slope |-> Num(Sgn(B) * (Abs(B) \div A)),
                stderr |-> IF n = 2 \/ resid <= 0 THEN Num(0)
                           ELSE Num(fdiv(sqrt_fixed(resid), root))]

---------------------------------------------------------------------------
(* IRB.analyze_results (supermarq) and IRB.analyse_results (cirq_superstaq) *)

NoResults ==
    [experiment_name |-> "none",
     rb_decay_coefficient |-> Missing,
     rb_decay_coefficient_std |-> Missing,
     irb_decay_coefficient |-> Missing,
     irb_decay_coefficient_std |-> Missing,
     average_interleaved_gate_error |-> Missing,
     average_interleaved_gate_error_std |-> Missing,
     average_gate_error |-> Missing,
     average_gate_error_std |-> Missing]

\* before the analysis has been called at all
NoCall == [results |-> NoResults, raw_data |-> <<>>, pc |-> "none"]

\* the transform without the offset: 2 * P(0)
survival_prob_unshifted(p0) == f_mul(Num(2 * One), p0)

\* 2 * self.raw_data["0"] - 1
survival_prob(p0) == f_sub(f_mul(Num(2 * One), p0), Num(One))

\* the columns computed from the survival column once it is there
with_survival_of_survival(rows) ==
    LET source(r) == IF r.survival_prob.k = "missing" THEN r.p0 ELSE r.survival_prob
    IN [i \in 1..Len(rows) |->
          [rows[i] EXCEPT !.survival_prob = survival_prob(source(rows[i])),
                          !.log_survival_prob = np_log(survival_prob(source(rows[i])))]]

\* the two columns analyze_results adds
with_survival(rows) ==
    [i \in 1..Len(rows) |->
        [rows[i] EXCEPT !.survival_prob = survival_prob(rows[i].p0),
                        !.log_survival_prob = np_log(survival_prob(rows[i].p0))]]

\* raw_data.dropna(axis=0): the rows with a NaN in some column go; -inf is
\* not NaN and stays
dropna(rows) ==
    LET has_nan(r) ==
            \/ r.p0.k = "nan"
            \/ r.p1.k = "nan"
            \/ r.survival_prob.k = "nan"
            \/ r.log_survival_prob.k = "nan"
    IN SelectSeq(rows, LAMBDA r : ~has_nan(r))

\* raw_data.query("experiment == '<name>'")
query(rows, name) == SelectSeq(rows, LAMBDA r : r.experiment = name)

\* the arguments of one linregress call: the depths and np.log(survival)
regression_input(rows, name) ==
    LET q == query(rows, name)
    IN [experiment |-> name,
        x |-> [i \in 1..Len(q) |-> q[i].clifford_depth],
        y |-> [i \in 1..Len(q) |-> np_log(q[i].survival_prob)],
        survival |-> [i \in 1..Len(q) |-> q[i].survival_prob]]

\* the factor left out: 1
depolarizing_factor_whole(n_qubits) == Num(One)

\* 1 - 2**-self.num_qubits
depolarizing_factor(n_qubits) == Num(One - (One \div (2 ^ n_qubits)))

\* the ratio taken the other way round: (1 - rb / irb) * (1 - 2**-num_qubits)
interleaved_gate_error_inverted(rb, irb, n_qubits) ==
    f_mul(f_sub(Num(One), f_div(rb, irb)), depolarizing_factor(n_qubits))

\* (1 - irb / rb) * (1 - 2**-num_qubits)
interleaved_gate_error(rb, irb, n_qubits) ==
    f_mul(f_sub(Num(One), f_div(irb, rb)), depolarizing_factor(n_qubits))

\* sqrt((irb_std / (2 rb))^2 + (irb * rb_std / (2 rb^2))^2)
interleaved_gate_error_std(rb, rb_std, irb, irb_std) ==
    LET t1 == f_div(irb_std, f_mul(Num(2 * One), rb))
        t2 == f_div(f_mul(irb, rb_std), f_mul(Num(2 * One), f_mul(rb, rb)))
    IN f_sqrt(f_add(f_mul(t1, t1), f_mul(t2, t2)))

\* the error without the depolarizing factor: 1 - rb
average_gate_error_unscaled(rb, n_qubits) == f_sub(Num(One), rb)

\* (1 - 2**-self.num_qubits) * (1 - rb_decay_coefficient)
average_gate_error(rb, n_qubits) ==
    f_mul(depolarizing_factor(n_qubits), f_sub(Num(One), rb))

\* (1 - 2**-self.num_qubits) * rb_decay_coefficient_std
average_gate_error_std(rb_std, n_qubits) ==
    f_mul(depolarizing_factor(n_qubits), rb_std)

\* the result stored even when a fit raised
stored_results_on_failure(previous, r) == r.results

\* self._results after a call: assigned once, after every fit was made, so a
\* call that raised leaves what was stored before
stored_results(previous, r) == IF r.raised THEN previous ELSE r.results

\* analyze_results of supermarq on the table `rows`: the table it leaves,
\* the linregress calls it makes, whether it raises, and the results
analyze_results(gate, rows, n_qubits) ==
    LET data == dropna(with_survival(rows))
        rb_in == regression_input(data, "RB")
        irb_in == regression_input(data, "IRB")
        rb_model == linregress(rb_in.x, rb_in.y)
        rb == np_exp(rb_model.slope)
        rb_std == f_mul(rb_model.stderr, rb)
        irb_model == linregress(irb_in.x, irb_in.y)
        irb == np_exp(irb_model.slope)
        irb_std == f_mul(irb_model.stderr, irb)
    IN IF linregress_raises(rb_in.x)
       THEN [raw_data |-> data, regressed |-> <<rb_in>>, raised |-> TRUE,
             results |-> NoResults]
       ELSE IF gate = NoneGate
       THEN [raw_data |-> data, regressed |-> <<rb_in>>, raised |-> FALSE,
             results |->
                [NoResults EXCEPT
                    !.experiment_name = "RB",
                    !.rb_decay_coefficient = rb,
                    !.rb_decay_coefficient_std = rb_std,
                    !.average_gate_error = average_gate_error(rb, n_qubits),
                    !.average_gate_error_std =
                        average_gate_error_std(rb_std, n_qubits)]]
       ELSE IF linregress_raises(irb_in.x)
       THEN [raw_data |-> data, regressed |-> <<rb_in, irb_in>>, raised |-> TRUE,
             results |-> NoResults]
       ELSE [raw_data |-> data, regressed |-> <<rb_in, irb_in>>, raised |-> FALSE,
             results |->
                [NoResults EXCEPT
                    !.experiment_name = "IRB",
                    !.rb_decay_coefficient = rb,
                    !.rb_decay_coefficient_std = rb_std,
                    !.irb_decay_coefficient = irb,
                    !.irb_decay_coefficient_std = irb_std,
                    !.average_interleaved_gate_error =
                        interleaved_gate_error(rb, irb, n_qubits),
                    !.average_interleaved_gate_error_std =
                        interleaved_gate_error_std(rb, rb_std, irb, irb_std)]]

\* the error without the division: 1 - irb / rb
interleaved_gate_error_cirq_undivided(rb, irb) ==
    f_sub(Num(One), f_div(irb, rb))

\* (1 - irb / rb) / 2
interleaved_gate_error_cirq(rb, irb) ==
    f_div(f_sub(Num(One), f_div(irb, rb)), Num(2 * One))

\* error * sqrt((rb_std / rb)^2 + (irb_std / irb)^2)
interleaved_gate_error_std_cirq(err, rb, rb_std, irb, irb_std) ==
    LET t1 == f_div(rb_std, rb)
        t2 == f_div(irb_std, irb)
    IN f_mul(err, f_sqrt(f_add(f_mul(t1, t1), f_mul(t2, t2))))

\* analyse_results of cirq_superstaq: no row is dropped, both fits are made
\* (the columns are named fidelity and log_fidelity, the results
\* rb_layer_fidelity and irb_layer_fidelity)
analyse_results_cirq(rows) ==
    LET data == with_survival(rows)
        rb_in == regression_input(data, "RB")
        irb_in == regression_input(data, "IRB")
        rb_model == linregress(rb_in.x, rb_in.y)
        irb_model == linregress(irb_in.x, irb_in.y)
        rb == np_exp(rb_model.slope)
        rb_std == f_mul(rb_model.stderr, rb)
        irb == np_exp(irb_model.slope)
        irb_std == f_mul(irb_model.stderr, irb)
        err == interleaved_gate_error_cirq(rb, irb)
    IN IF linregress_raises(rb_in.x)
       THEN [raw_data |-> data, regressed |-> <<rb_in>>, raised |-> TRUE,
             results |-> NoResults]
       ELSE IF linregress_raises(irb_in.x)
       THEN [raw_data |-> data, regressed |-> <<rb_in, irb_in>>, raised |-> TRUE,
             results |-> NoResults]
       ELSE [raw_data |-> data, regressed |-> <<rb_in, irb_in>>, raised |-> FALSE,
             results |->
                [NoResults EXCEPT
                    !.experiment_name = "IRB",
                    !.rb_decay_coefficient = rb,
                    !.rb_decay_coefficient_std = rb_std,
                    !.irb_decay_coefficient = irb,
                    !.irb_decay_coefficient_std = irb_std,
                    !.average_interleaved_gate_error = err,
                    !.average_interleaved_gate_error_std =
                        interleaved_gate_error_std_cirq(err, rb, rb_std, irb, irb_std)]]

---------------------------------------------------------------------------
(* IRB._build_circuits *)

ClOp(g) == [kind |-> "clifford", gate |-> g]
MeasureOp == [kind |-> "measure", gate |-> NoneGate]

\* sample.probabilities before the circuits are sampled
NoProbabilities == [p0 |-> -1, p1 |-> -1]

\* the gates of a circuit as operations on the one qubit
ops_of(gates) == [i \in 1..Len(gates) |-> ClOp(gates[i])]

\* the sample with circuit_depth counted after the measurement is added
make_sample_measured(circuit, depth, experiment) ==
    [raw_circuit |-> ops_of(circuit) \o <<MeasureOp>>,
     data |-> [num_cycles |-> depth,
               circuit_depth |-> Len(circuit) + 1,
               experiment |-> experiment],
     probabilities |-> NoProbabilities]

\* Sample(raw_circuit=circuit + cirq.measure(...), data={...}); len(circuit)
\* is its number of moments, one per operation on the single qubit
make_sample(circuit, depth, experiment) ==
    [raw_circuit |-> ops_of(circuit) \o <<MeasureOp>>,
     data |-> [num_cycles |-> depth,
               circuit_depth |-> Len(circuit),
               experiment |-> experiment],
     probabilities |-> NoProbabilities]

NoArgs == [num_circuits |-> 0, cycle_depths |-> <<>>]

\* the random source as a build sees it: the outcomes of the calls of
\* _random_single_qubit_clifford it will answer, each one choice from set_A
\* and one from set_B, when the build begins (start) and when it ends (rest)
NoRandomSource == [start |-> <<>>, rest |-> <<>>]

RECURSIVE SumSeq(_)
SumSeq(q) == IF q = <<>> THEN 0 ELSE Head(q) + SumSeq(Tail(q))

\* the iteration with the interleaving done after the inversion
iteration_samples_invert_first(gate, base, depth) ==
    LET rb == <<make_sample(invert_clifford_circuit(base), depth, "RB")>>
    IN IF gate = NoneGate THEN rb
       ELSE rb \o <<make_sample(
                       interleave_op(invert_clifford_circuit(base), gate),
                       depth, "IRB")>>

\* the iteration with the interleaved circuit built from another sequence
\* (here the base reversed) than the plain one
iteration_samples_other_base(gate, base, depth) ==
    LET rb == <<make_sample(invert_clifford_circuit(base), depth, "RB")>>
        other == [i \in 1..Len(base) |-> base[Len(base) + 1 - i]]
    IN IF gate = NoneGate THEN rb
       ELSE rb \o <<make_sample(
                       invert_clifford_circuit(interleave_op(other, gate)),
                       depth, "IRB")>>

\* the samples one (trial, depth) iteration appends, the base circuit given
iteration_samples(gate, base, depth) ==
    LET rb == <<make_sample(invert_clifford_circuit(base), depth, "RB")>>
    IN IF gate = NoneGate THEN rb
       ELSE rb \o <<make_sample(
                       invert_clifford_circuit(interleave_op(base, gate)),
                       depth, "IRB")>>

\* the loop with the depths outermost: product(cycle_depths, range(num_circuits))
RECURSIVE build_loop_depth_outer(_, _, _, _, _, _)
build_loop_depth_outer(gate, num_circuits, cycle_depths, draws, k, acc) ==
    IF k >= num_circuits * Len(cycle_depths)
    THEN [raised |-> FALSE, samples |-> acc, draws_left |-> draws]
    ELSE LET depth == cycle_depths[(k \div num_circuits) + 1]
             base == [i \in 1..depth |-> ProductTable[draws[i]]]
             rest == SubSeq(draws, depth + 1, Len(draws))
         IN IF invert_raises(base)
            THEN [raised |-> TRUE, samples |-> <<>>, draws_left |-> rest]
            ELSE build_loop_depth_outer(gate, num_circuits, cycle_depths, rest,
                            k + 1, acc \o iteration_samples(gate, base, depth))

\* the loop with every iteration reading the source from where the build
\* began
RECURSIVE build_loop_same_draws(_, _, _, _, _, _)
build_loop_same_draws(gate, num_circuits, cycle_depths, draws, k, acc) ==
    IF k >= num_circuits * Len(cycle_depths)
    THEN [raised |-> FALSE, samples |-> acc, draws_left |-> draws]
    ELSE LET depth == cycle_depths[(k % Len(cycle_depths)) + 1]
             base == [i \in 1..depth |-> ProductTable[draws[i]]]
         IN IF invert_raises(base)
            THEN [raised |-> TRUE, samples |-> <<>>, draws_left |-> draws]
            ELSE build_loop_same_draws(gate, num_circuits, cycle_depths, draws, k + 1,
                            acc \o iteration_samples(gate, base, depth))

\* for _, depth in product(range(num_circuits), cycle_depths): iteration k
\* (from 0) is trial k div |cycle_depths| at depth cycle_depths[k mod |..|];
\* draws are the outcomes of the random choices in the order they are made
RECURSIVE build_loop(_, _, _, _, _, _)
build_loop(gate, num_circuits, cycle_depths, draws, k, acc) ==
    IF k >= num_circuits * Len(cycle_depths)
    THEN [raised |-> FALSE, samples |-> acc, draws_left |-> draws]
    ELSE LET depth == cycle_depths[(k % Len(cycle_depths)) + 1]
             base == [i \in 1..depth |-> ProductTable[draws[i]]]
             rest == SubSeq(draws, depth + 1, Len(draws))
         IN IF invert_raises(base)
            THEN [raised |-> TRUE, samples |-> <<>>, draws_left |-> rest]
            ELSE build_loop(gate, num_circuits, cycle_depths, rest, k + 1,
                            acc \o iteration_samples(gate, base, depth))

build_circuits(gate, num_circuits, cycle_depths, draws) ==
    build_loop(gate, num_circuits, cycle_depths, draws, 0, <<>>)

\* cirq_superstaq: Sample(circuit=circuit, data={...}), no measurement added
make_sample_cirq(circuit, depth, experiment) ==
    [raw_circuit |-> ops_of(circuit),
     data |-> [num_cycles |-> depth,
               circuit_depth |-> Len(circuit),
               experiment |-> experiment],
     probabilities |-> NoProbabilities]

\* cirq_superstaq build_circuits: every iteration appends an RB and an IRB
\* sample
RECURSIVE build_loop_cirq(_, _, _, _, _, _)
build_loop_cirq(gate, num_circuits, layers, draws, k, acc) ==
    IF k >= num_circuits * Len(layers)
    THEN [raised |-> FALSE, samples |-> acc, draws_left |-> draws]
    ELSE LET depth == layers[(k % Len(layers)) + 1]
             base == [i \in 1..depth |-> ProductTable[draws[i]]]
             rest == SubSeq(draws, depth + 1, Len(draws))
         IN IF invert_raises(base)
            THEN [raised |-> TRUE, samples |-> <<>>, draws_left |-> rest]
            ELSE build_loop_cirq(gate, num_circuits, layers, rest, k + 1,
                    acc \o <<make_sample_cirq(
                                invert_clifford_circuit_cirq(base), depth, "RB"),
                             make_sample_cirq(
                                invert_clifford_circuit_cirq(interleave_op(base, gate)),
                                depth, "IRB")>>)

build_circuits_cirq(gate, num_circuits, layers, draws) ==
    build_loop_cirq(gate, num_circuits, layers, draws, 0, <<>>)

DepthLists == UNION {[1..n -> 0..MaxDepth] : n \in 0..MaxDepths}

\* the interleaving gates the builder is run with: none, the default Z, S H
BuilderGates == {NoneGate, Z, set_A[5]}

\* the outcomes of the random choices explored in the builder: I I, S X, S H Y
\* (SpecClifford explores all 24)
BuilderDraws == {<<1, 1>>, <<2, 2>>, <<5, 3>>}

\* self.interleaved_gate before __init__ has stored it
NotStored == [xto |-> <<9, 9>>, zto |-> <<9, 9>>]
NoInitArgs == [interleaved_gate |-> NotStored, num_qubits |-> 0]

\* raising for more than one qubit only
init_raises_above_one(n) == n > 1

\* if num_qubits != 1: raise NotImplementedError(...)
init_raises(n) == n # 1

Init ==
    /\ interleaved_gate \in BuilderGates
    /\ base_circuit = <<>>
    /\ last_draw = <<0, 0>>
    /\ rb_circuit = <<>>
    /\ irb_circuit = <<>>
    /\ args = NoArgs
    /\ random_source = NoRandomSource
    /\ samples = <<>>
    /\ package = "supermarq"
    /\ raw_data = <<>>
    /\ results = NoResults
    /\ regressed = <<>>
    /\ num_qubits = 1
    /\ init_args = [interleaved_gate |-> interleaved_gate, num_qubits |-> 1]
    /\ calls = 0
    /\ before_call = NoCall
    /\ pc = "new"

\* self._samples = self._build_circuits(num_circuits, cycle_depths)
BuildCircuits(num_circuits, cycle_depths) ==
    /\ pc = "new"
    /\ num_circuits * SumSeq(cycle_depths) <= MaxGates
    /\ \E draws \in [1..(num_circuits * SumSeq(cycle_depths)) -> BuilderDraws] :
          LET r == build_circuits(interleaved_gate, num_circuits, cycle_depths, draws)
          IN /\ args' = [num_circuits |-> num_circuits, cycle_depths |-> cycle_depths]
             /\ random_source' = [start |-> draws, rest |-> r.draws_left]
             /\ samples' = r.samples
             /\ pc' = IF r.raised THEN "IndexError" ELSE "built"
    /\ UNCHANGED <<ctor_vars, interleaved_gate, gate_vars, analysis_vars>>

Next ==
    \E num_circuits \in 1..MaxCircuits, cycle_depths \in DepthLists :
        BuildCircuits(num_circuits, cycle_depths)

Spec == Init /\ [][Next]_vars

---------------------------------------------------------------------------
(* IRB.__init__, then the builder (SpecConstruct) *)

InitConstruct ==
    /\ interleaved_gate = NotStored
    /\ num_qubits = 0
    /\ init_args = NoInitArgs
    /\ base_circuit = <<>>
    /\ last_draw = <<0, 0>>
    /\ rb_circuit = <<>>
    /\ irb_circuit = <<>>
    /\ args = NoArgs
    /\ random_source = NoRandomSource
    /\ samples = <<>>
    /\ package = "supermarq"
    /\ raw_data = <<>>
    /\ results = NoResults
    /\ regressed = <<>>
    /\ calls = 0
    /\ before_call = NoCall
    /\ pc = "unconstructed"

\* IRB(interleaved_gate=gate, num_qubits=n): the check, then
\* super().__init__(num_qubits=1), then self.interleaved_gate = gate
Construct(gate, n) ==
    /\ pc = "unconstructed"
    /\ init_args' = [interleaved_gate |-> gate, num_qubits |-> n]
    /\ IF init_raises(n)
       THEN /\ pc' = "NotImplementedError"
            /\ UNCHANGED <<interleaved_gate, num_qubits>>
       ELSE /\ num_qubits' = 1
            /\ interleaved_gate' = gate
            /\ pc' = "new"
    /\ UNCHANGED <<gate_vars, build_vars, analysis_vars>>

NextConstruct ==
    \/ \E gate \in BuilderGates, n \in 0..MaxQubits : Construct(gate, n)
    \/ \E num_circuits \in 1..MaxCircuits, cycle_depths \in DepthLists :
          BuildCircuits(num_circuits, cycle_depths)

SpecConstruct == InitConstruct /\ [][NextConstruct]_vars

---------------------------------------------------------------------------
(* Sampling, aggregation and analysis of a built experiment (SpecAnalysis) *)

\* P(0) of a sample, as the sampler reports it: below one half, one half,
\* and values above it (0.95 and 0.9 are survival 0.9 and 0.8)
P0Values == {250000, 500000, 750000, 900000, 950000, 1000000}

\* the package and the interleaving gate of the experiment analysed; the
\* cirq_superstaq experiment always has a gate (default Z)
AnalysisConfigs ==
    {<<"supermarq", NoneGate>>, <<"supermarq", Z>>, <<"cirq_superstaq", Z>>}

\* the number of samples a call builds
rows_built(gate, num_circuits, cycle_depths) ==
    num_circuits * Len(cycle_depths) * (IF gate = NoneGate THEN 1 ELSE 2)

\* the calls that built the experiment: depths >= 1 (a depth of 0 raises)
AnalysisCalls(gate) ==
    {c \in [num_circuits : 1..MaxCircuits,
            cycle_depths : UNION {[1..n -> 1..MaxDepth] : n \in 1..MaxDepths}] :
        rows_built(gate, c.num_circuits, c.cycle_depths) <= MaxRows}

\* the outcome of every random choice in the experiments analysed: S X
AnalysisDraws(c) == [i \in 1..(c.num_circuits * SumSeq(c.cycle_depths)) |-> <<2, 2>>]

InitAnalysis ==
    /\ \E cfg \in AnalysisConfigs :
          /\ package = cfg[1]
          /\ interleaved_gate = cfg[2]
          /\ \E c \in AnalysisCalls(cfg[2]) :
                /\ args = c
                /\ random_source = [start |-> AnalysisDraws(c), rest |-> <<>>]
                /\ samples =
                      IF cfg[1] = "supermarq"
                      THEN build_circuits(cfg[2], c.num_circuits, c.cycle_depths,
                                          AnalysisDraws(c)).samples
                      ELSE build_circuits_cirq(cfg[2], c.num_circuits, c.cycle_depths,
                                               AnalysisDraws(c)).samples
    /\ base_circuit = <<>>
    /\ last_draw = <<0, 0>>
    /\ rb_circuit = <<>>
    /\ irb_circuit = <<>>
    /\ raw_data = <<>>
    /\ results = NoResults
    /\ regressed = <<>>
    /\ num_qubits = 1
    /\ init_args = [interleaved_gate |-> interleaved_gate, num_qubits |-> 1]
    /\ calls = 0
    /\ before_call = NoCall
    /\ pc = "built"

\* the sampler fills in sample.probabilities = {"0": p0, "1": 1 - p0}
SampleCircuits ==
    /\ pc = "built"
    /\ \E ps \in [1..Len(samples) -> P0Values] :
          samples' = [i \in 1..Len(samples) |->
                        [samples[i] EXCEPT
                            !.probabilities = [p0 |-> ps[i], p1 |-> One - ps[i]]]]
    /\ pc' = "sampled"
    /\ UNCHANGED <<ctor_vars, interleaved_gate, gate_vars, args, random_source,
                   analysis_vars>>

\* self._raw_data = self._process_probabilities(self.samples)
ProcessProbabilities ==
    /\ pc = "sampled"
    /\ raw_data' = process_probabilities(samples)
    /\ pc' = "processed"
    /\ UNCHANGED <<ctor_vars, interleaved_gate, gate_vars, build_vars, package, results,
                   regressed, calls, before_call>>

\* supermarq: IRB.analyze_results(plot_results=False)
AnalyzeResults ==
    /\ pc \in {"processed", "analyzed", "ValueError"}
    /\ calls < MaxCalls
    /\ package = "supermarq"
    /\ calls' = calls + 1
    /\ before_call' = [results |-> results, raw_data |-> raw_data, pc |-> pc]
    /\ \E r \in {analyze_results(interleaved_gate, raw_data, num_qubits)} :
          /\ raw_data' = r.raw_data
          /\ regressed' = r.regressed
          /\ results' = stored_results(results, r)
          /\ pc' = IF r.raised THEN "ValueError" ELSE "analyzed"
    /\ UNCHANGED <<ctor_vars, interleaved_gate, gate_vars, build_vars, package>>

\* cirq_superstaq: IRB.analyse_results(plot_results=False)
AnalyseResultsCirq ==
    /\ pc \in {"processed", "analyzed", "ValueError"}
    /\ calls < MaxCalls
    /\ package = "cirq_superstaq"
    /\ calls' = calls + 1
    /\ before_call' = [results |-> results, raw_data |-> raw_data, pc |-> pc]
    /\ \E r \in {analyse_results_cirq(raw_data)} :
          /\ raw_data' = r.raw_data
          /\ regressed' = r.regressed
          /\ results' = stored_results(results, r)
          /\ pc' = IF r.raised THEN "ValueError" ELSE "analyzed"
    /\ UNCHANGED <<ctor_vars, interleaved_gate, gate_vars, build_vars, package>>

NextAnalysis ==
    \/ SampleCircuits
    \/ ProcessProbabilities
    \/ AnalyzeResults
    \/ AnalyseResultsCirq

SpecAnalysis == InitAnalysis /\ [][NextAnalysis]_vars

---------------------------------------------------------------------------
(* Analysis of rows supplied directly, at depths 0, 2, 4, ... (SpecFit) *)

\* survival probabilities decaying by 0.9 and by 0.8 per row, to 2 decimals
SurvivalPlain ==
    <<1000000, 900000, 810000, 730000, 660000, 590000, 530000, 480000>>
SurvivalInterleaved ==
    <<1000000, 800000, 640000, 510000, 410000, 330000, 260000, 210000>>

\* the three P(0) a row at position j may have: (1 + survival) / 2 for
\* either decay, or 0.25 (a negative survival probability)
FitP0Values(j) ==
    <<(One + SurvivalPlain[j]) \div 2, (One + SurvivalInterleaved[j]) \div 2, 250000>>

\* a sample with its tags and probabilities, as the analysis reads it
fit_sample(j, experiment, p0) ==
    [raw_circuit |-> <<>>,
     data |-> [num_cycles |-> 2 * (j - 1),
               circuit_depth |-> 0,
               experiment |-> experiment],
     probabilities |-> [p0 |-> p0, p1 |-> One - p0]]

\* k RB samples at depths 0, 2, ..., 2 (k - 1), then (with a gate) k IRB
\* samples at the same depths
fit_samples(gate, k, ps) ==
    [i \in 1..(IF gate = NoneGate THEN k ELSE 2 * k) |->
        IF i <= k THEN fit_sample(i, "RB", ps[i])
        ELSE fit_sample(i - k, "IRB", ps[i])]

InitFit ==
    /\ \E cfg \in AnalysisConfigs :
          /\ package = cfg[1]
          /\ interleaved_gate = cfg[2]
          /\ \E k \in 1..MaxFitRows :
                /\ (IF cfg[2] = NoneGate THEN k ELSE 2 * k) <= MaxFitRows
                /\ \E c \in [1..(IF cfg[2] = NoneGate THEN k ELSE 2 * k) -> 1..3] :
                      samples = fit_samples(cfg[2], k,
                                    [i \in DOMAIN c |->
                                        FitP0Values(IF i <= k THEN i ELSE i - k)[c[i]]])
    /\ args = NoArgs
    /\ random_source = NoRandomSource
    /\ base_circuit = <<>>
    /\ last_draw = <<0, 0>>
    /\ rb_circuit = <<>>
    /\ irb_circuit = <<>>
    /\ raw_data = <<>>
    /\ results = NoResults
    /\ regressed = <<>>
    /\ num_qubits = 1
    /\ init_args = [interleaved_gate |-> interleaved_gate, num_qubits |-> 1]
    /\ calls = 0
    /\ before_call = NoCall
    /\ pc = "sampled"

NextFit ==
    \/ ProcessProbabilities
    \/ AnalyzeResults
    \/ AnalyseResultsCirq

SpecFit == InitFit /\ [][NextFit]_vars

---------------------------------------------------------------------------
(* The experiment run again: the circuits are sampled anew after an
   analysis, and the new probabilities are aggregated and analysed *)

\* the P(0) of a sample in these runs: 0.25 (unusable) or 0.9
RerunP0Values == {250000, 900000}

\* one circuit at each of two depths
RerunCalls(gate) ==
    {c \in AnalysisCalls(gate) : c.num_circuits = 1 /\ Len(c.cycle_depths) = 2}

InitRerun ==
    /\ \E cfg \in AnalysisConfigs :
          /\ package = cfg[1]
          /\ interleaved_gate = cfg[2]
          /\ \E c \in RerunCalls(cfg[2]) :
                /\ args = c
                /\ random_source = [start |-> AnalysisDraws(c), rest |-> <<>>]
                /\ samples =
                      IF cfg[1] = "supermarq"
                      THEN build_circuits(cfg[2], c.num_circuits, c.cycle_depths,
                                          AnalysisDraws(c)).samples
                      ELSE build_circuits_cirq(cfg[2], c.num_circuits, c.cycle_depths,
                                               AnalysisDraws(c)).samples
    /\ base_circuit = <<>>
    /\ last_draw = <<0, 0>>
    /\ rb_circuit = <<>>
    /\ irb_circuit = <<>>
    /\ raw_data = <<>>
    /\ results = NoResults
    /\ regressed = <<>>
    /\ num_qubits = 1
    /\ init_args = [interleaved_gate |-> interleaved_gate, num_qubits |-> 1]
    /\ calls = 0
    /\ before_call = NoCall
    /\ pc = "built"

\* the sampler fills in the probabilities, the first time or again after an
\* analysis
SampleAgain ==
    /\ pc \in {"built", "analyzed", "ValueError"}
    /\ calls < MaxCalls
    /\ \E ps \in [1..Len(samples) -> RerunP0Values] :
          samples' = [i \in 1..Len(samples) |->
                        [samples[i] EXCEPT
                            !.probabilities = [p0 |-> ps[i], p1 |-> One - ps[i]]]]
    /\ pc' = "sampled"
    /\ UNCHANGED <<ctor_vars, interleaved_gate, gate_vars, args, random_source,
                   analysis_vars>>

NextRerun ==
    \/ SampleAgain
    \/ ProcessProbabilities
    \/ AnalyzeResults
    \/ AnalyseResultsCirq

SpecRerun == InitRerun /\ [][NextRerun]_vars

---------------------------------------------------------------------------
(* Gate-level operations of one experiment object (SpecClifford) *)

InitClifford ==
    /\ interleaved_gate \in CliffordGroup \cup {NoneGate}
    /\ base_circuit = <<>>
    /\ last_draw = <<0, 0>>
    /\ rb_circuit = <<>>
    /\ irb_circuit = <<>>
    /\ args = NoArgs
    /\ random_source = NoRandomSource
    /\ samples = <<>>
    /\ package = "supermarq"
    /\ raw_data = <<>>
    /\ results = NoResults
    /\ regressed = <<>>
    /\ num_qubits = 1
    /\ init_args = [interleaved_gate |-> interleaved_gate, num_qubits |-> 1]
    /\ calls = 0
    /\ before_call = NoCall
    /\ pc = "drawing"

\* one self._random_single_qubit_clifford() of the list comprehension in
\* _build_circuits, appended to the base circuit
DrawClifford ==
    /\ pc = "drawing"
    /\ Len(base_circuit) < MaxLen
    /\ \E d \in Draws :
          /\ last_draw' = d
          /\ base_circuit' = Append(base_circuit, ProductTable[d])
    /\ UNCHANGED <<ctor_vars, interleaved_gate, rb_circuit, irb_circuit, pc, build_vars, analysis_vars>>

\* rb_circuit = self._invert_clifford_circuit(base_circuit), supermarq
InvertPlain ==
    /\ pc = "drawing"
    /\ IF invert_raises(base_circuit)
       THEN /\ pc' = "IndexError"
            /\ rb_circuit' = <<>>
       ELSE /\ pc' = "inverted_rb"
            /\ rb_circuit' = invert_clifford_circuit(base_circuit)
    /\ UNCHANGED <<ctor_vars, interleaved_gate, base_circuit, last_draw, irb_circuit, build_vars, analysis_vars>>

\* rb_circuit = self._invert_clifford_circuit(base_circuit), cirq_superstaq
InvertPlainCirq ==
    /\ pc = "drawing"
    /\ IF invert_raises(base_circuit)
       THEN /\ pc' = "IndexError"
            /\ rb_circuit' = <<>>
       ELSE /\ pc' = "inverted_rb"
            /\ rb_circuit' = invert_clifford_circuit_cirq(base_circuit)
    /\ UNCHANGED <<ctor_vars, interleaved_gate, base_circuit, last_draw, irb_circuit, build_vars, analysis_vars>>

\* irb_circuit = self._invert_clifford_circuit(self._interleave_op(
\*     base_circuit, self.interleaved_gate(*self.qubits), include_final=True))
InvertInterleaved ==
    /\ pc = "drawing"
    /\ interleaved_gate # NoneGate
    /\ LET interleaved == interleave_op(base_circuit, interleaved_gate)
       IN IF invert_raises(interleaved)
          THEN /\ pc' = "IndexError"
               /\ irb_circuit' = <<>>
          ELSE /\ pc' = "inverted_irb"
               /\ irb_circuit' = invert_clifford_circuit(interleaved)
    /\ UNCHANGED <<ctor_vars, interleaved_gate, base_circuit, last_draw, rb_circuit, build_vars, analysis_vars>>

NextClifford ==
    \/ DrawClifford
    \/ InvertPlain
    \/ InvertPlainCirq
    \/ InvertInterleaved

SpecClifford == InitClifford /\ [][NextClifford]_vars

---------------------------------------------------------------------------
(* Net effect of a circuit, gate by gate on a Pauli *)

RECURSIVE Propagate(_, _, _)
Propagate(p, circuit, i) ==
    IF i > Len(circuit) THEN p
    ELSE Propagate(Image(circuit[i], p), circuit, i + 1)

\* the circuit maps X to X and Z to Z: the identity up to global phase
ComposesToIdentity(circuit) ==
    /\ Propagate(<<1, 1>>, circuit, 1) = <<1, 1>>
    /\ Propagate(<<3, 1>>, circuit, 1) = <<3, 1>>

---------------------------------------------------------------------------
(* C1: for every base sequence of L >= 1 Clifford gates, the plain        *)
(* circuit _invert_clifford_circuit returns is the base sequence followed  *)
(* by one gate, and applying its gates in order is the identity.          *)
C1_PlainComposesToIdentity ==
    pc = "inverted_rb" =>
        /\ Len(base_circuit) >= 1
        /\ Len(rb_circuit) = Len(base_circuit) + 1
        /\ SubSeq(rb_circuit, 1, Len(base_circuit)) = base_circuit
        /\ rb_circuit[Len(rb_circuit)] \in CliffordGroup
        /\ ComposesToIdentity(rb_circuit)

\* a plain circuit of two gates that do not commute, closed by a gate that
\* is not the identity
C1_Witness ==
    /\ pc = "inverted_rb"
    /\ Len(base_circuit) = 2
    /\ merged_with(base_circuit[1], base_circuit[2])
          # merged_with(base_circuit[2], base_circuit[1])
    /\ rb_circuit[3] # Id

(* C2: for every base sequence of L >= 1 gates and every interleaving     *)
(* gate of the group, the interleaved circuit (each base gate followed by  *)
(* the interleaving gate, then the appended inverse) is the identity.      *)
C2_InterleavedComposesToIdentity ==
    pc = "inverted_irb" =>
        /\ Len(base_circuit) >= 1
        /\ interleaved_gate \in CliffordGroup
        /\ Len(irb_circuit) = 2 * Len(base_circuit) + 1
        /\ \A i \in 1..Len(base_circuit) :
              /\ irb_circuit[2 * i - 1] = base_circuit[i]
              /\ irb_circuit[2 * i] = interleaved_gate
        /\ ComposesToIdentity(irb_circuit)

\* an interleaved circuit of two base gates with the gate S H interleaved,
\* which commutes with neither base gate
C2_Witness ==
    /\ pc = "inverted_irb"
    /\ Len(base_circuit) = 2
    /\ interleaved_gate = set_A[5]
    /\ \A i \in 1..2 :
          merged_with(base_circuit[i], interleaved_gate)
              # merged_with(interleaved_gate, base_circuit[i])
    /\ irb_circuit[5] # Id

---------------------------------------------------------------------------
(* Shape of the samples of a finished _build_circuits call *)

NumIterations == args.num_circuits * Len(args.cycle_depths)
\* the depth of iteration k (from 0): trials outermost, depths innermost
DepthOf(k) == args.cycle_depths[(k % Len(args.cycle_depths)) + 1]
\* where iteration k put its samples
RBIndex(k) == IF interleaved_gate = NoneGate THEN k + 1 ELSE 2 * k + 1
IRBIndex(k) == 2 * k + 2

GatesOf(raw_circuit, n) == [i \in 1..n |-> raw_circuit[i].gate]

\* n Clifford operations, then the measurement and nothing else
CliffordsThenMeasure(raw_circuit, n) ==
    /\ Len(raw_circuit) = n + 1
    /\ \A i \in 1..n :
          /\ raw_circuit[i].kind = "clifford"
          /\ raw_circuit[i].gate \in CliffordGroup
    /\ raw_circuit[n + 1] = MeasureOp

(* C5: for every requested depth L >= 0, depth 0 included, _build_circuits *)
(* produces a plain sample with exactly L + 1 Clifford operations before   *)
(* the measurement: L base elements and one closing inverse.               *)
C5_PlainHasDepthPlusOne ==
    pc # "new" =>
        /\ pc = "built"
        /\ \A k \in 0..(NumIterations - 1) :
              /\ RBIndex(k) <= Len(samples)
              /\ samples[RBIndex(k)].data.experiment = "RB"
              /\ CliffordsThenMeasure(samples[RBIndex(k)].raw_circuit, DepthOf(k) + 1)
              /\ ComposesToIdentity(
                    GatesOf(samples[RBIndex(k)].raw_circuit, DepthOf(k) + 1))

(* C6: with an interleaving gate configured, the interleaved circuit of    *)
(* every requested depth L has exactly 2L + 1 operations before the        *)
(* measurement: base element, interleaving gate, ..., base element,        *)
(* interleaving gate, and one final inverse element.                       *)
C6_InterleavedHasTwoDepthPlusOne ==
    (pc = "built" /\ interleaved_gate # NoneGate) =>
        \A k \in 0..(NumIterations - 1) :
            LET L == DepthOf(k)
                rb == samples[RBIndex(k)].raw_circuit
                irb == samples[IRBIndex(k)].raw_circuit
            IN /\ samples[IRBIndex(k)].data.experiment = "IRB"
               /\ CliffordsThenMeasure(irb, 2 * L + 1)
               /\ \A i \in 1..L :
                     /\ irb[2 * i - 1] = rb[i]
                     /\ irb[2 * i] = ClOp(interleaved_gate)
               /\ ComposesToIdentity(GatesOf(irb, 2 * L + 1))

\* a finished call with an interleaving gate and a depth-2 interleaved
\* circuit whose two base elements differ
C6_Witness ==
    /\ pc = "built"
    /\ interleaved_gate # NoneGate
    /\ \E k \in 0..(NumIterations - 1) :
          /\ DepthOf(k) = 2
          /\ Len(samples[IRBIndex(k)].raw_circuit) = 6
          /\ samples[IRBIndex(k)].raw_circuit[1] # samples[IRBIndex(k)].raw_circuit[3]

(* C7: _build_circuits returns num_circuits * |depths| samples, all "RB",  *)
(* without an interleaving gate, and 2 * num_circuits * |depths| samples   *)
(* with one, every "RB" sample immediately followed by the "IRB" sample of *)
(* the same trial and depth; trials are the outer loop, depths the inner.  *)
C7_SampleCountAndOrder ==
    pc = "built" =>
        IF interleaved_gate = NoneGate
        THEN /\ Len(samples) = NumIterations
             /\ \A k \in 0..(NumIterations - 1) :
                   /\ samples[k + 1].data.experiment = "RB"
                   /\ samples[k + 1].data.num_cycles = DepthOf(k)
        ELSE /\ Len(samples) = 2 * NumIterations
             /\ \A k \in 0..(NumIterations - 1) :
                   /\ samples[2 * k + 1].data.experiment = "RB"
                   /\ samples[2 * k + 2].data.experiment = "IRB"
                   /\ samples[2 * k + 1].data.num_cycles = DepthOf(k)
                   /\ samples[2 * k + 2].data.num_cycles = DepthOf(k)

\* two trials over the depths [1, 2] with an interleaving gate: eight
\* samples, the depths running 1, 1, 2, 2, 1, 1, 2, 2
C7_Witness ==
    /\ pc = "built"
    /\ interleaved_gate # NoneGate
    /\ args = [num_circuits |-> 2, cycle_depths |-> <<1, 2>>]
    /\ Len(samples) = 8
    /\ [i \in 1..8 |-> samples[i].data.num_cycles] = <<1, 1, 2, 2, 1, 1, 2, 2>>

\* the 24 products are the 24 elements of the group, once each
ProductsAreTheGroup ==
    /\ Cardinality(Draws) = 24
    /\ Cardinality(CliffordGroup) = 24
    /\ {ProductTable[d] : d \in Draws} = CliffordGroup
    /\ \A d, e \in Draws : ProductTable[d] = ProductTable[e] => d = e

(* C8: the 24 products set_A[a] * set_B[b] are pairwise distinct and are   *)
(* the whole 24-element group, so every gate drawn is reached by exactly   *)
(* one of the 24 equally likely pairs (a, b): probability 1/24 each.       *)
C8_UniformOverGroup ==
    /\ ProductsAreTheGroup
    /\ last_draw # <<0, 0>> =>
          LET g == base_circuit[Len(base_circuit)]
          IN /\ g \in CliffordGroup
             /\ {d \in Draws : ProductTable[d] = g} = {last_draw}

\* the draw of H S H from set_A and Y from set_B has been made
C8_Witness ==
    /\ last_draw = <<6, 3>>
    /\ base_circuit[Len(base_circuit)] \notin
          {set_A[a] : a \in 1..6} \cup {set_B[b] : b \in 1..4}

---------------------------------------------------------------------------
(* Further builder claims (Spec) *)

\* the circuit without its last element (the final inverse)
WithoutInverse(gates) == SubSeq(gates, 1, Len(gates) - 1)

\* the elements at the odd positions: the interleaving insertions removed
WithoutInterleaving(gates) ==
    [i \in 1..(Len(gates) \div 2) |-> gates[2 * i - 1]]

CountKind(raw_circuit, kind) ==
    Cardinality({i \in 1..Len(raw_circuit) : raw_circuit[i].kind = kind})

\* the iteration (from 0) that appended sample i
IterationOf(i) ==
    IF interleaved_gate = NoneGate THEN i - 1 ELSE (i - 1) \div 2

\* C20: every sample _build_circuits returns carries num_cycles equal to the
\* requested depth L, experiment equal to its variant label, circuit_depth
\* equal to the number of Clifford operations of its circuit (L + 1 for RB,
\* 2 L + 1 for IRB, the measurement not counted), and raw_circuit has exactly
\* one measurement, as its last operation.
C20_SampleTags ==
    pc = "built" =>
        \A i \in 1..Len(samples) :
            LET x == samples[i]
                L == DepthOf(IterationOf(i))
            IN /\ x.data.num_cycles = L
               /\ x.data.experiment \in {"RB", "IRB"}
               /\ x.data.experiment = "IRB" <=>
                     (interleaved_gate # NoneGate /\ i % 2 = 0)
               /\ x.data.circuit_depth = CountKind(x.raw_circuit, "clifford")
               /\ x.data.circuit_depth =
                     IF x.data.experiment = "RB" THEN L + 1 ELSE 2 * L + 1
               /\ CountKind(x.raw_circuit, "measure") = 1
               /\ x.raw_circuit[Len(x.raw_circuit)].kind = "measure"
               /\ Len(x.raw_circuit) = x.data.circuit_depth + 1

C20_Witness ==
    /\ pc = "built"
    /\ \E i, j \in 1..Len(samples) :
          /\ samples[i].data = [num_cycles |-> 2, circuit_depth |-> 3,
                                experiment |-> "RB"]
          /\ samples[j].data = [num_cycles |-> 2, circuit_depth |-> 5,
                                experiment |-> "IRB"]
          /\ samples[j].raw_circuit[6] = MeasureOp

---------------------------------------------------------------------------
(* Analysis claims (SpecAnalysis) *)

AnalysisRan == pc \in {"analyzed", "ValueError"}

\* C3: no row whose survival probability 2 P(0) - 1 is <= 0 (P(0) <= 0.5,
\* the boundary P(0) = 0.5 included) is part of the data passed to a linear
\* regression, for the RB rows and for the IRB rows.
C3_NoNonPositiveSurvivalRegressed ==
    \A c \in 1..Len(regressed) :
        \A i \in 1..Len(regressed[c].survival) :
            /\ IsNum(regressed[c].survival[i])
            /\ regressed[c].survival[i].v > 0

\* the number of samples of a variant whose survival probability is positive
UsableRows(name) ==
    Cardinality({i \in 1..Len(samples) :
                    /\ samples[i].data.experiment = name
                    /\ 2 * samples[i].probabilities.p0 - One > 0})

InsufficientData ==
    \/ UsableRows("RB") < 2
    \/ interleaved_gate # NoneGate /\ UsableRows("IRB") < 2

HasNaN(res) ==
    \E f \in {"rb_decay_coefficient", "rb_decay_coefficient_std",
              "irb_decay_coefficient", "irb_decay_coefficient_std",
              "average_interleaved_gate_error",
              "average_interleaved_gate_error_std",
              "average_gate_error", "average_gate_error_std"} :
        res[f].k = "nan"

\* C4: when fewer than 2 usable rows remain for a required variant (RB
\* always, IRB when a gate is configured), analyze_results neither surfaces
\* the library's ValueError nor returns a result containing NaN.
C4_InsufficientDataIsDistinct ==
    (package = "supermarq" /\ AnalysisRan /\ InsufficientData) =>
        /\ pc # "ValueError"
        /\ ~(pc = "analyzed" /\ HasNaN(results))

\* C9: the aggregated table has one row per sample, in the order of the
\* samples, and once analyze_results has added the column every row's
\* survival probability is 2 P(0) - 1: 0.5 for P(0) = 0.75, 1 for P(0) = 1.
C9_OneRowPerSampleAndSurvival ==
    /\ pc = "processed" =>
          /\ Len(raw_data) = Len(samples)
          /\ \A i \in 1..Len(samples) :
                /\ raw_data[i].clifford_depth = samples[i].data.num_cycles
                /\ raw_data[i].experiment = samples[i].data.experiment
                /\ raw_data[i].p0 = Num(samples[i].probabilities.p0)
    /\ AnalysisRan =>
          \A i \in 1..Len(raw_data) :
                /\ IsNum(raw_data[i].survival_prob)
                /\ raw_data[i].survival_prob.v = 2 * raw_data[i].p0.v - One
                /\ raw_data[i].p0.v = 750000 => raw_data[i].survival_prob.v = 500000
                /\ raw_data[i].p0.v = One => raw_data[i].survival_prob.v = One

C9_Witness ==
    /\ pc = "analyzed"
    /\ Len(samples) = MaxRows
    /\ Len(raw_data) = Len(samples)
    /\ \E i \in 1..Len(raw_data) :
          raw_data[i].p0.v = 750000 /\ raw_data[i].survival_prob.v = 500000
    /\ \E i \in 1..Len(raw_data) :
          raw_data[i].p0.v = One /\ raw_data[i].survival_prob.v = One

RECURSIVE FPow(_, _)
\* r to the power k in fixed point
FPow(r, k) == IF k = 0 THEN One ELSE fmul(r, FPow(r, k - 1))

\* the P(0) of the samples of a variant, as <<depth, P(0)>> pairs in order
PointsOf(name) ==
    LET idx == SelectSeq([i \in 1..Len(samples) |-> i],
                         LAMBDA i : samples[i].data.experiment = name)
    IN [j \in 1..Len(idx) |->
            <<samples[idx[j]].data.num_cycles, samples[idx[j]].probabilities.p0>>]

\* r is the decay fitted from the rows of a variant, checked where the fit
\* is exact: two usable rows at depths d1 < d2 with survival s1 and s2 give
\* s1 r^(d2 - d1) = s2 (to 10^-4)
FittedFrom(r, name) ==
    LET pts == PointsOf(name)
    IN (/\ Len(pts) = 2
        /\ pts[1][1] < pts[2][1]
        /\ 2 * pts[1][2] - One > 0
        /\ 2 * pts[2][2] - One > 0) =>
            /\ IsNum(r)
            /\ Abs(fmul(2 * pts[1][2] - One, FPow(r.v, pts[2][1] - pts[1][1]))
                   - (2 * pts[2][2] - One)) <= 100

\* RB rows decaying by 0.9 and IRB rows decaying by 0.8 per depth step
DecayExample ==
    /\ PointsOf("RB") = <<<<1, 1000000>>, <<2, 950000>>>>
    /\ PointsOf("IRB") = <<<<1, 1000000>>, <<2, 900000>>>>

C11_RBResultsIffNoGate ==
    (package = "supermarq" /\ pc = "analyzed") =>
        /\ results.experiment_name = "RB" <=> interleaved_gate = NoneGate
        /\ results.experiment_name = "IRB" <=> interleaved_gate # NoneGate
        /\ interleaved_gate = NoneGate =>
              /\ Len(regressed) = 1
              /\ regressed[1].experiment = "RB"
              /\ results.irb_decay_coefficient = Missing
              /\ results.average_interleaved_gate_error = Missing
              /\ IsNum(results.rb_decay_coefficient) =>
                    /\ IsNum(results.average_gate_error)
                    /\ Abs(2 * results.average_gate_error.v
                           - (One - results.rb_decay_coefficient.v)) <= 1
              /\ IsNum(results.rb_decay_coefficient_std) =>
                    /\ IsNum(results.average_gate_error_std)
                    /\ Abs(2 * results.average_gate_error_std.v
                           - results.rb_decay_coefficient_std.v) <= 1

C11_Witness ==
    /\ package = "supermarq"
    /\ pc = "analyzed"
    /\ interleaved_gate = NoneGate
    /\ results.experiment_name = "RB"
    /\ Len(regressed) = 1
    /\ IsNum(results.rb_decay_coefficient)
    /\ results.rb_decay_coefficient.v < One
    /\ IsNum(results.average_gate_error)
    /\ results.average_gate_error.v > 0
    /\ IsNum(results.average_gate_error_std)
    /\ results.average_gate_error_std.v > 0

\* every sample's survival probability is positive: the drop step removes
\* nothing and no row has a logarithm of -inf
AllRowsUsable ==
    \A i \in 1..Len(samples) : 2 * samples[i].probabilities.p0 - One > 0

\* C12: every required variant that has at least 2 rows after the drop step
\* is fitted and gets a decay coefficient exp(slope), also when all rows of
\* the variant share one depth (depths [d] with num_circuits >= 2).
C12_TwoRowsAreFitted ==
    (/\ package = "supermarq"
     /\ AnalysisRan
     /\ AllRowsUsable
     /\ UsableRows("RB") >= 2
     /\ interleaved_gate # NoneGate => UsableRows("IRB") >= 2) =>
        /\ pc = "analyzed"
        /\ IsNum(results.rb_decay_coefficient)
        /\ interleaved_gate # NoneGate => IsNum(results.irb_decay_coefficient)

\* what an analysis gives: whether it raised, and the record it returned
Outcome(pkg, gate, rows) ==
    LET r == IF pkg = "supermarq" THEN analyze_results(gate, rows, 1)
             ELSE analyse_results_cirq(rows)
    IN [raised |-> r.raised, results |-> r.results]

\* the samples without those of negative survival probability (P(0) < 0.5)
WithoutNegative(smpls) ==
    SelectSeq(smpls, LAMBDA x : 2 * x.probabilities.p0 - One >= 0)

\* C13: rows with P(0) < 0.5 have no influence: the analysis of a data set
\* raises or returns exactly what the analysis of the same data set without
\* those rows does (so two data sets that differ only in such rows give the
\* same decay coefficients and gate error, and no error because of them).
C13_NegativeRowsHaveNoInfluence ==
    AnalysisRan =>
        [raised |-> pc = "ValueError", results |-> results]
            = Outcome(package, interleaved_gate,
                      process_probabilities(WithoutNegative(samples)))

---------------------------------------------------------------------------
(* Fit claims (SpecFit) *)

\* sqrt((s_irb / (2 r_rb))^2 + (r_irb s_rb / (2 r_rb^2))^2), written as
\* sqrt(s_irb^2 + (r_irb s_rb / r_rb)^2) / (2 r_rb)
PropagatedStd(r_rb, s_rb, r_irb, s_irb) ==
    LET u == fdiv(fmul(r_irb, s_rb), r_rb)
    IN fdiv(sqrt_fixed(fmul(s_irb, s_irb) + fmul(u, u)), 2 * r_rb)

\* a and b agree to 5% (and 4 10^-5)
Close(a, b) == 20 * Abs(a - b) <= Abs(b) + 40

\* C17: with a gate configured, in both packages, the standard deviation of
\* the interleaved-gate error is
\* sqrt((s_irb / (2 r_rb))^2 + (r_irb s_rb / (2 r_rb^2))^2), each s being the
\* slope's standard error times the decay coefficient.
C17_PropagatedStd ==
    (/\ pc = "analyzed"
     /\ interleaved_gate # NoneGate
     /\ IsNum(results.rb_decay_coefficient)
     /\ IsNum(results.irb_decay_coefficient)) =>
        /\ results.rb_decay_coefficient_std =
              f_mul(linregress(regressed[1].x, regressed[1].y).stderr,
                    results.rb_decay_coefficient)
        /\ results.irb_decay_coefficient_std =
              f_mul(linregress(regressed[2].x, regressed[2].y).stderr,
                    results.irb_decay_coefficient)
        /\ IsNum(results.average_interleaved_gate_error_std)
        /\ Close(results.average_interleaved_gate_error_std.v,
                 PropagatedStd(results.rb_decay_coefficient.v,
                               results.rb_decay_coefficient_std.v,
                               results.irb_decay_coefficient.v,
                               results.irb_decay_coefficient_std.v))

\* PLAIN rows at depths 0, 2, 4, 6, 8 with survival probabilities 1.0, 0.9,
\* 0.81, 0.73, 0.66, no gate configured, analysed by supermarq
PlainExample ==
    /\ package = "supermarq"
    /\ interleaved_gate = NoneGate
    /\ pc = "analyzed"
    /\ PointsOf("RB") = <<<<0, 1000000>>, <<2, 950000>>, <<4, 905000>>,
                          <<6, 865000>>, <<8, 830000>>>>

\* v is within 1% of w
WithinOnePercent(v, w) == 100 * Abs(v - w) <= w

\* C18 as stated: on the example the fitted decay coefficient is within 1%
\* of 0.9 and the average gate error is (1 - 2^-1) (1 - 0.9) = 0.05 (to 1%).
C18_DecayIsNineTenths ==
    PlainExample =>
        /\ IsNum(results.rb_decay_coefficient)
        /\ WithinOnePercent(results.rb_decay_coefficient.v, 900000)
        /\ IsNum(results.average_gate_error)
        /\ WithinOnePercent(results.average_gate_error.v, 50000)

\* C18 amended: the depths being 2 apart, the fitted decay coefficient (per
\* unit of depth) is within 1% of sqrt(0.9) = 0.9487, and the average gate
\* error is (1 - 2^-1) (1 - decay coefficient), about 0.0253 (to 1%).
C18_DecayIsRootOfNineTenths ==
    PlainExample =>
        /\ IsNum(results.rb_decay_coefficient)
        /\ WithinOnePercent(results.rb_decay_coefficient.v, 948683)
        /\ WithinOnePercent(fmul(results.rb_decay_coefficient.v,
                                 results.rb_decay_coefficient.v), 900000)
        /\ IsNum(results.average_gate_error)
        /\ Abs(2 * results.average_gate_error.v
               - (One - results.rb_decay_coefficient.v)) <= 1
        /\ WithinOnePercent(results.average_gate_error.v, 25345)

C18_Witness ==
    /\ PlainExample
    /\ results.experiment_name = "RB"
    /\ IsNum(results.rb_decay_coefficient)
    /\ IsNum(results.average_gate_error)

---------------------------------------------------------------------------
(* Gate-level claims (SpecClifford) *)

\* C14: _reduce_clifford_seq fails (IndexError, no gate) exactly on the
\* empty sequence, and returns a gate of the group for every other one.
C14_ReduceFailsOnlyOnEmpty ==
    /\ pc = "IndexError" =>
          /\ base_circuit = <<>>
          /\ inverse_seq(base_circuit) = <<>>
          /\ rb_circuit = <<>> /\ irb_circuit = <<>>
    /\ pc = "inverted_rb" =>
          /\ inverse_seq(base_circuit) # <<>>
          /\ rb_circuit[Len(rb_circuit)] = reduce_clifford_seq(inverse_seq(base_circuit))
          /\ rb_circuit[Len(rb_circuit)] \in CliffordGroup
    /\ pc = "inverted_irb" =>
          /\ inverse_seq(interleave_op(base_circuit, interleaved_gate)) # <<>>
          /\ irb_circuit[Len(irb_circuit)] \in CliffordGroup
    /\ \A i \in 1..Len(base_circuit) : base_circuit[i] \in CliffordGroup

C14_Witness ==
    /\ pc = "IndexError"
    /\ base_circuit = <<>>
    /\ reduce_raises(inverse_seq(base_circuit))

\* C16: a gate g the generator returns, composed with the inverse computed
\* for it (the element _invert_clifford_circuit appends to the one-gate
\* circuit [g]), is the identity, and that inverse is one of the 24 gates.
C16_ElementTimesInverseIsIdentity ==
    (pc = "inverted_rb" /\ Len(base_circuit) = 1) =>
        /\ Len(rb_circuit) = 2
        /\ rb_circuit[1] = ProductTable[last_draw]
        /\ rb_circuit[2] \in CliffordGroup
        /\ merged_with(rb_circuit[1], rb_circuit[2]) = Id
        /\ merged_with(rb_circuit[2], rb_circuit[1]) = Id

C16_Witness ==
    /\ pc = "inverted_rb"
    /\ Len(base_circuit) = 1
    /\ rb_circuit[2] # rb_circuit[1]
    /\ merged_with(rb_circuit[1], rb_circuit[2]) = Id

\* C21: _reduce_clifford_seq is a left-to-right fold of composition in
\* application order: reduce([g]) = g, reduce(s ++ [g]) = reduce(s) merged
\* with g, reduce(a ++ b) = reduce([reduce(a), reduce(b)]) for non-empty a
\* and b, and the result acts as the gates applied in list order.  Checked
\* on the sequence the plain inversion reduced, and on that sequence with
\* any one gate put in front.
C21_ReduceIsLeftFold ==
    pc = "inverted_rb" =>
        LET seq == inverse_seq(base_circuit)
            n == Len(seq)
            r == rb_circuit[Len(rb_circuit)]
        IN /\ r = reduce_clifford_seq(seq)
           /\ n = 1 => r = seq[1]
           /\ n >= 2 =>
                 r = merged_with(reduce_clifford_seq(SubSeq(seq, 1, n - 1)), seq[n])
           /\ \A i \in 1..(n - 1) :
                 r = reduce_clifford_seq(
                        <<reduce_clifford_seq(SubSeq(seq, 1, i)),
                          reduce_clifford_seq(SubSeq(seq, i + 1, n))>>)
           /\ \A a \in 1..Len(set_A) :
                 reduce_clifford_seq(<<set_A[a]>> \o seq) = MergeTable[set_A[a]][r]
           /\ Image(r, <<1, 1>>) = Propagate(<<1, 1>>, seq, 1)
           /\ Image(r, <<3, 1>>) = Propagate(<<3, 1>>, seq, 1)

\* a reduced sequence of two gates that do not commute
C21_Witness ==
    /\ pc = "inverted_rb"
    /\ Len(base_circuit) = 2
    /\ merged_with(base_circuit[1], base_circuit[2])
          # merged_with(base_circuit[2], base_circuit[1])
    /\ rb_circuit[3] = reduce_clifford_seq(inverse_seq(base_circuit))

---------------------------------------------------------------------------
(* Construction claims (SpecConstruct) *)

\* C15: constructing with num_qubits other than 1 fails at once with
\* NotImplementedError, before the base class is initialised and before
\* interleaved_gate is stored; with num_qubits = 1 it succeeds for every
\* interleaved_gate, None included.
C15_OnlyOneQubitConstructs ==
    pc # "unconstructed" =>
        /\ init_args.num_qubits # 1 =>
              /\ pc = "NotImplementedError"
              /\ num_qubits = 0
              /\ interleaved_gate = NotStored
        /\ init_args.num_qubits = 1 =>
              /\ pc # "NotImplementedError"
              /\ num_qubits = 1
              /\ interleaved_gate = init_args.interleaved_gate

C15_Witness ==
    /\ pc = "NotImplementedError"
    /\ init_args.num_qubits = 0
    /\ interleaved_gate = NotStored

---------------------------------------------------------------------------
(* Repeated analysis (SpecRerun, SpecAnalysis) *)

\* C22: when an analysis raises (the RB or the IRB regression fails), the
\* stored results are exactly what they were before the call; results are
\* assigned only after every required fit succeeded, so with a gate
\* configured no result of the RB fit alone is ever stored.
C22_FailureLeavesResults ==
    /\ pc = "ValueError" => results = before_call.results
    /\ (interleaved_gate # NoneGate /\ results # NoResults) =>
          results.experiment_name = "IRB"
    /\ (pc = "analyzed" /\ interleaved_gate # NoneGate) =>
          /\ Len(regressed) = 2
          /\ ~linregress_raises(regressed[1].x)
          /\ ~linregress_raises(regressed[2].x)

\* an analysis stored IRB results, the circuits were sampled again, and the
\* next analysis failed in the IRB fit after the RB fit had succeeded
C22_Witness ==
    /\ pc = "ValueError"
    /\ package = "supermarq"
    /\ before_call.results.experiment_name = "IRB"
    /\ Len(regressed) = 2
    /\ ~linregress_raises(regressed[1].x)
    /\ linregress_raises(regressed[2].x)

\* C23: the first analyze_results of a table adds the survival_prob and
\* log_survival_prob columns and removes the rows with a negative survival
\* probability; another call on the same experiment drops no further row
\* and ends like the one before it, with equal results.
C23_SecondCallChangesNothing ==
    (package = "supermarq" /\ AnalysisRan) =>
        /\ \A i \in 1..Len(raw_data) :
              /\ raw_data[i].survival_prob.k # "missing"
              /\ raw_data[i].log_survival_prob.k \in {"num", "-inf"}
        /\ before_call.pc = "processed" =>
              /\ Len(raw_data) =
                    Cardinality({i \in 1..Len(before_call.raw_data) :
                                    2 * before_call.raw_data[i].p0.v - One >= 0})
              /\ \A i \in 1..Len(before_call.raw_data) :
                    before_call.raw_data[i].survival_prob.k = "missing"
        /\ before_call.pc \in {"analyzed", "ValueError"} =>
              /\ raw_data = before_call.raw_data
              /\ results = before_call.results
              /\ pc = before_call.pc

\* a second call after a first one that dropped a row and stored results
C23_Witness ==
    /\ package = "supermarq"
    /\ calls = 2
    /\ pc = "analyzed"
    /\ before_call.pc = "analyzed"
    /\ Len(raw_data) < Len(samples)
    /\ results.rb_decay_coefficient.k = "num"

---------------------------------------------------------------------------
(* The two packages compared (SpecFit) *)

\* the point estimates both packages report
PointEstimates ==
    {"rb_decay_coefficient", "irb_decay_coefficient", "average_interleaved_gate_error"}

---------------------------------------------------------------------------
(* The builder and the random source (Spec) *)

\* the number of base elements drawn before iteration k (from 0)
DrawnBefore(k) == SumSeq([j \in 1..k |-> DepthOf(j - 1)])

\* the number of random.choice calls a build made: two for every outcome of
\* the generator it took from the source
ChoicesConsumed == 2 * (Len(random_source.start) - Len(random_source.rest))

====
